---- MODULE Spec2Model ----
(***************************************************************************)
(* wagtail-starling: category routing, category listings, category-aware   *)
(* URLs and listing pagination (src/src/wagtail_starling/models.py).       *)
(*                                                                         *)
(* The content store is modelled by two tables, `categories` and           *)
(* `articles`; a request to the article index page ("self") is routed      *)
(* (CategoryRoutingMixin.route) and then served (CategoryRoutingMixin      *)
(* .serve); the store may change between the two steps.                    *)
(*                                                                         *)
(* The analytics side is the table `analytics` of AnalyticsSettings (one   *)
(* row per site), its inclusion rule should_include_analytics and the two  *)
(* template tags of templatetags/analytics_tags.py.                        *)
(***************************************************************************)
EXTENDS Integers, Sequences, FiniteSets, TLC

VARIABLES
    categories,    \* rows of Category: [translation_key, locale, slug]
    articles,      \* rows of the article page model
    phase,         \* position of the current request: "idle", "routed", "stale"
                   \* (routed, and the store has changed since), "served"
    request,       \* the request being handled: path components, language, sub-routes
    route_result,  \* what route() returned or raised
    response,      \* what serve() returned or raised
    url_call,      \* one call of CategoryMixin.get_url_parts: input and output
    pager_call,    \* one call of the listing pagination: input and output
    analytics,     \* rows of AnalyticsSettings, one per site at most
    settings_call, \* one AnalyticsSettings.objects.create: input and outcome
    tag_call,      \* one rendering of analytics_head and analytics_body
    include_call,  \* one call of should_include_analytics: input and output
    replay         \* a second evaluation of route or of the category listing

vars == <<categories, articles, phase, request, route_result, response,
          url_call, pager_call, analytics, settings_call, tag_call,
          include_call, replay>>

\* What the routing side never touches, and what the analytics side never
\* touches.
analytics_state == <<analytics, settings_call, tag_call, include_call>>

routing_state == <<categories, articles, phase, request, route_result, response,
                   url_call, pager_call>>

-----------------------------------------------------------------------------
(* Universes and bounds *)

Locales == {"en", "fr"}
Slugs == {"news", "post"}
Names == {"News", "Post"}
TranslationKeys == {"k1", "k2"}
Indexes == {"self", "other"}      \* "self" is the index page that routes

MaxCategories == 2    \* category rows in the store at one time
MaxArticles == 1      \* article pages in the store at one time
MaxInstant == 1       \* distinct first_published_at instants of those pages

\* models.py:269 and :491, getattr(settings, 'ARTICLES_PER_PAGE', 10)
ARTICLES_PER_PAGE == 10

\* A null foreign key (CategoryMixin.category, null=True).
NoCategory == [translation_key |-> "", locale |-> ""]

\* The primary key of a category row; (translation_key, locale) is unique
\* (Category.Meta.unique_together), so the pair identifies the row.
CategoryRef(c) == [translation_key |-> c.translation_key, locale |-> c.locale]

-----------------------------------------------------------------------------
(* Category.save *)

\* django.utils.text.slugify on the names of the model: lower-cased ASCII.
slugify(name) ==
    CASE name = "News" -> "news"
      [] name = "Post" -> "post"
      [] OTHER -> ""

\* Category.save without the copy from a source row.
Category_save_slugs_NameDerived(cats, obj) ==
    {IF obj.slug = "" THEN slugify(obj.name) ELSE obj.slug}

\* Category.save that keeps a slug supplied with the new row.
Category_save_slugs_SuppliedSlugWins(cats, obj) ==
    LET sources == {c \in cats : /\ c.translation_key = obj.translation_key
                                 /\ c.locale # obj.locale}
    IN  IF obj.slug # "" THEN {obj.slug}
        ELSE IF ~obj.has_id /\ sources # {}
        THEN {c.slug : c \in sources}
        ELSE {slugify(obj.name)}

\* The slugs Category.save may store for `obj` = [has_id, translation_key,
\* locale, name, slug] against the rows `cats`.  `.first()` of the source
\* query is any row of the query when several qualify.
Category_save_slugs(cats, obj) ==
    LET given == IF obj.slug = "" THEN slugify(obj.name) ELSE obj.slug
        sources == {c \in cats : /\ c.translation_key = obj.translation_key
                                 /\ c.locale # obj.locale}
    IN  IF ~obj.has_id /\ sources # {}
        THEN {c.slug : c \in sources}
        ELSE {given}

\* Writes to the store come from other requests (the admin).  One that
\* arrives between route() and serve() of the current request leaves the
\* route result as it was computed: the phase becomes "stale".
ConcurrentWrite ==
    /\ phase \in {"idle", "routed"}
    /\ phase' = IF phase = "routed" THEN "stale" ELSE phase
    /\ UNCHANGED <<request, route_result, response, url_call, pager_call>>
    /\ UNCHANGED <<analytics_state, replay>>

IdleWrite ==
    /\ phase = "idle"
    /\ UNCHANGED <<phase, request, route_result, response, url_call, pager_call>>
    /\ UNCHANGED <<analytics_state, replay>>

\* The first save without the unique_together of Meta.
SaveNewCategory_NoUniqueTogether(locales, max) ==
    \E k \in TranslationKeys, l \in locales, n \in Names, s \in Slugs \cup {""} :
        /\ Cardinality(categories) < max
        /\ \E slug \in Category_save_slugs(categories,
                 [has_id |-> FALSE, translation_key |-> k, locale |-> l,
                  name |-> n, slug |-> s]) :
              categories' = categories \cup
                  {[translation_key |-> k, locale |-> l, slug |-> slug]}
        /\ UNCHANGED articles
        /\ IdleWrite

\* First save of a new row (id not set) in one of `locales`, the table
\* holding fewer than `max` rows.  unique_together rejects a second row for
\* the same (translation_key, locale).
SaveNewCategory(locales, max) ==
    \E k \in TranslationKeys, l \in locales, n \in Names, s \in Slugs \cup {""} :
        /\ Cardinality(categories) < max
        /\ ~\E c \in categories : c.translation_key = k /\ c.locale = l
        /\ \E slug \in Category_save_slugs(categories,
                 [has_id |-> FALSE, translation_key |-> k, locale |-> l,
                  name |-> n, slug |-> s]) :
              categories' = categories \cup
                  {[translation_key |-> k, locale |-> l, slug |-> slug]}
        /\ UNCHANGED articles
        /\ IdleWrite

CreateCategory == SaveNewCategory(Locales, MaxCategories)

\* Save of an existing row (id set) with an edited name or slug.
UpdateCategory ==
    \E c \in categories, n \in Names, s \in Slugs \cup {""} :
        /\ \E slug \in Category_save_slugs(categories,
                 [has_id |-> TRUE, translation_key |-> c.translation_key,
                  locale |-> c.locale, name |-> n, slug |-> s]) :
              /\ slug # c.slug
              /\ categories' = (categories \ {c}) \cup {[c EXCEPT !.slug = slug]}
        /\ UNCHANGED articles
        /\ ConcurrentWrite

\* Deleting a category; CategoryMixin.category is on_delete=SET_NULL.
DeleteCategory ==
    \E c \in categories :
        /\ categories' = categories \ {c}
        /\ articles' = {IF a.category = CategoryRef(c)
                        THEN [a EXCEPT !.category = NoCategory] ELSE a
                        : a \in articles}
        /\ ConcurrentWrite

-----------------------------------------------------------------------------
(* Article pages *)

NoArticle == [id |-> 0, parent |-> "", slug |-> "", locale |-> "", live |-> FALSE,
              category |-> NoCategory, first_published_at |-> 0]

\* Publishing an article page below an index page.  Wagtail keeps slugs
\* unique among the children of one parent; the category is null or an
\* existing row.
CreateArticle ==
    \E p \in Indexes, s \in Slugs, l \in Locales, lv \in BOOLEAN, t \in 1..MaxInstant,
       cat \in {NoCategory} \cup {CategoryRef(c) : c \in categories} :
        /\ Cardinality(articles) < MaxArticles
        /\ ~\E a \in articles : a.parent = p /\ a.slug = s
        /\ articles' = articles \cup
              {[id |-> Cardinality(articles) + 1, parent |-> p, slug |-> s,
                locale |-> l, live |-> lv, category |-> cat,
                first_published_at |-> t]}
        /\ UNCHANGED categories
        /\ IdleWrite

\* The category row an article points to.
CategoryOf(cats, a) == CHOOSE c \in cats : CategoryRef(c) = a.category

-----------------------------------------------------------------------------
(* CategoryMixin.get_url_parts.  A path string is the sequence of its      *)
(* tokens: "/" and the slugs between the slashes.                          *)

\* str.rstrip("/")
RECURSIVE rstrip_slash(_)
rstrip_slash(s) ==
    IF s # <<>> /\ s[Len(s)] = "/"
    THEN rstrip_slash(SubSeq(s, 1, Len(s) - 1))
    ELSE s

\* str.split("/"): the parts between the slashes, "" where two slashes (or a
\* slash and an end of the string) are adjacent.
RECURSIVE split_slash(_)
split_slash(s) ==
    IF s = <<>> THEN <<"">>
    ELSE IF Head(s) = "/" THEN <<"">> \o split_slash(Tail(s))
    ELSE <<Head(s)>> \o Tail(split_slash(Tail(s)))

\* "/".join(parts)
RECURSIVE join_slash(_)
join_slash(parts) ==
    IF parts = <<>> THEN <<>>
    ELSE (IF Head(parts) = "" THEN <<>> ELSE <<Head(parts)>>)
         \o (IF Len(parts) > 1 THEN <<"/">> \o join_slash(Tail(parts)) ELSE <<>>)

\* list.insert(-1, x) on a list of at least one element: x goes before the
\* last element.
insert_before_last(parts, x) ==
    SubSeq(parts, 1, Len(parts) - 1) \o <<x>> \o <<parts[Len(parts)]>>

\* `slug not in parts`
SlugNotInParts(slug, parts) == \A i \in 1..Len(parts) : parts[i] # slug

\* get_url_parts that inserts the slug whether or not it is among the parts.
get_url_parts_AlwaysInsert(page_path, cat) ==
    IF cat.present
    THEN LET parts == split_slash(rstrip_slash(page_path))
         IN  IF Len(parts) >= 2
             THEN join_slash(insert_before_last(parts, cat.slug)) \o <<"/">>
             ELSE page_path
    ELSE page_path

\* page_path after get_url_parts; `cat` is [present, slug]: whether
\* self.category is set, and its slug.
get_url_parts(page_path, cat) ==
    IF cat.present
    THEN LET parts == split_slash(rstrip_slash(page_path))
         IN  IF Len(parts) >= 2 /\ SlugNotInParts(cat.slug, parts)
             THEN join_slash(insert_before_last(parts, cat.slug)) \o <<"/">>
             ELSE page_path
    ELSE page_path

\* The slug of an index page, and Page.get_url_parts' path of an article
\* below it (the hierarchical path).
IndexSlug(p) == IF p = "self" THEN "news" ELSE "blog"

Page_page_path(a) == <<"/", IndexSlug(a.parent), "/", a.slug, "/">>

\* article.get_url(request): the path built by get_url_parts.
Article_get_url(cats, a) ==
    get_url_parts(Page_page_path(a),
        IF a.category = NoCategory
        THEN [present |-> FALSE, slug |-> ""]
        ELSE [present |-> TRUE, slug |-> CategoryOf(cats, a).slug])

-----------------------------------------------------------------------------
(* Queries of the content store *)

NoCategoryRow == [translation_key |-> "", locale |-> "", slug |-> ""]

\* Category.objects.get(slug=..., locale__language_code=...): the row, or
\* DoesNotExist, or MultipleObjectsReturned.
Category_get(cats, slug, language) ==
    LET found == {c \in cats : c.slug = slug /\ c.locale = language}
    IN  IF found = {} THEN [status |-> "DoesNotExist", obj |-> NoCategoryRow]
        ELSE IF Cardinality(found) > 1
             THEN [status |-> "MultipleObjectsReturned", obj |-> NoCategoryRow]
             ELSE [status |-> "ok", obj |-> CHOOSE c \in found : TRUE]

\* QuerySet.first(): the first row in tree order, None (NoArticle) when empty.
first(rows) ==
    IF rows = {} THEN NoArticle
    ELSE CHOOSE a \in rows : \A b \in rows : a.id <= b.id

\* child_of(self) without live().
live_child_of_Unpublished(arts, parent) == {a \in arts : a.parent = parent}

\* ArticleModel.objects.live().child_of(self)
live_child_of(arts, parent) == {a \in arts : a.live /\ a.parent = parent}

-----------------------------------------------------------------------------
(* CategoryRoutingMixin.route *)

NoKwargs == [keys |-> {}, redirect_url |-> <<>>, category_slug |-> ""]

\* What the host's other sub-routes (super().route) do with the request:
\* raise Http404, or return a result with keyword arguments of the host's.
GenericOutcomes ==
    { [match |-> FALSE, kwargs |-> NoKwargs],
      [match |-> TRUE, kwargs |-> NoKwargs],
      [match |-> TRUE,
       kwargs |-> [keys |-> {"redirect_url", "category_slug"},
                   redirect_url |-> <<"/", "host", "/">>,
                   category_slug |-> "post"]] }

IndexPage == [model |-> "index", id |-> 0]
ArticlePage(a) == [model |-> "article", id |-> a.id]

Returned(rule, page, args, kwargs, tried) ==
    [outcome |-> "return", exception |-> "", rule |-> rule, page |-> page,
     args |-> args, kwargs |-> kwargs, tried |-> tried]

Raised(exception, rule, tried) ==
    [outcome |-> "raise", exception |-> exception, rule |-> rule,
     page |-> IndexPage, args |-> <<>>, kwargs |-> NoKwargs, tried |-> tried]

NoRouteResult == Raised("", "", <<>>)

\* route_single with the category rule tried before the article rule.
route_single_CategoryFirst(cats, arts, req) ==
    LET slug == req.path[1]
        article == first({a \in live_child_of(arts, "self") :
                            a.slug = slug /\ a.locale = req.language})
        category == Category_get(cats, slug, req.language)
    IN  IF category.status = "ok"
        THEN [done |-> TRUE,
              result |-> Returned("category_index", IndexPage, req.path,
                  [keys |-> {"category_slug"}, redirect_url |-> <<>>,
                   category_slug |-> slug],
                  <<"category_index">>)]
        ELSE IF article # NoArticle /\ article.category # NoCategory
        THEN [done |-> TRUE,
              result |-> Returned("article_redirect", IndexPage, req.path,
                  [keys |-> {"redirect_url"},
                   redirect_url |-> Article_get_url(cats, article),
                   category_slug |-> ""],
                  <<"category_index", "article_redirect">>)]
        ELSE [done |-> FALSE, result |-> NoRouteResult,
              tried |-> <<"category_index", "article_redirect">>]

\* Lines 172-196: the two rules for a path of one component.  `done` tells
\* whether the rule returned or raised; otherwise control falls through.
route_single(cats, arts, req) ==
    LET slug == req.path[1]
        article == first({a \in live_child_of(arts, "self") :
                            a.slug = slug /\ a.locale = req.language})
        category == Category_get(cats, slug, req.language)
    IN  IF article # NoArticle /\ article.category # NoCategory
        THEN [done |-> TRUE,
              result |-> Returned("article_redirect", IndexPage, req.path,
                  [keys |-> {"redirect_url"},
                   redirect_url |-> Article_get_url(cats, article),
                   category_slug |-> ""],
                  <<"article_redirect">>)]
        ELSE IF category.status = "ok"
        THEN [done |-> TRUE,
              result |-> Returned("category_index", IndexPage, req.path,
                  [keys |-> {"category_slug"}, redirect_url |-> <<>>,
                   category_slug |-> slug],
                  <<"article_redirect", "category_index">>)]
        ELSE IF category.status = "MultipleObjectsReturned"
        THEN [done |-> TRUE,
              result |-> Raised("MultipleObjectsReturned", "category_index",
                  <<"article_redirect", "category_index">>)]
        ELSE [done |-> FALSE, result |-> NoRouteResult,
              tried |-> <<"article_redirect", "category_index">>]

\* Lines 198-202: super().route, an Http404 of which is swallowed.
route_generic(req, tried) ==
    IF req.generic.match
    THEN [done |-> TRUE,
          result |-> Returned("generic", IndexPage, req.path, req.generic.kwargs,
                              Append(tried, "generic"))]
    ELSE [done |-> FALSE, result |-> NoRouteResult,
          tried |-> Append(tried, "generic")]

\* Lines 204-228: category + article, for a path of two components.
route_category_article(cats, arts, req, tried) ==
    LET category_slug == req.path[1]
        post_slug == req.path[2]
        category == Category_get(cats, category_slug, req.language)
        article == first({a \in live_child_of(arts, "self") :
                            /\ a.slug = post_slug
                            /\ a.category = CategoryRef(category.obj)
                            /\ a.locale = req.language})
        tried2 == Append(tried, "category_article")
    IN  IF category.status = "MultipleObjectsReturned"
        THEN [done |-> TRUE,
              result |-> Raised("MultipleObjectsReturned", "category_article", tried2)]
        ELSE IF category.status = "ok" /\ article # NoArticle
        THEN \* article.specific.route(request, []): a live page returns itself
             [done |-> TRUE,
              result |-> Returned("category_article", ArticlePage(article), <<>>,
                                  NoKwargs, tried2)]
        ELSE [done |-> FALSE, result |-> NoRouteResult, tried |-> tried2]

\* route with the category + article rule tried before super().route.
route_CategoryArticleBeforeGeneric(cats, arts, req) ==
    LET s == IF Len(req.path) = 1
             THEN route_single(cats, arts, req)
             ELSE [done |-> FALSE, result |-> NoRouteResult, tried |-> <<>>]
    IN  IF s.done THEN s.result
        ELSE LET t == IF Len(req.path) = 2
                      THEN route_category_article(cats, arts, req, s.tried)
                      ELSE [done |-> FALSE, result |-> NoRouteResult,
                            tried |-> s.tried]
             IN  IF t.done THEN t.result
                 ELSE LET g == route_generic(req, t.tried)
                      IN  IF g.done THEN g.result
                          ELSE Raised("Http404", "none", g.tried)

\* The whole of route(): the rules in the order of the code.
route(cats, arts, req) ==
    LET s == IF Len(req.path) = 1
             THEN route_single(cats, arts, req)
             ELSE [done |-> FALSE, result |-> NoRouteResult, tried |-> <<>>]
    IN  IF s.done THEN s.result
        ELSE LET g == route_generic(req, s.tried)
             IN  IF g.done THEN g.result
                 ELSE LET t == IF Len(req.path) = 2
                               THEN route_category_article(cats, arts, req, g.tried)
                               ELSE [done |-> FALSE, result |-> NoRouteResult,
                                     tried |-> g.tried]
                      IN  IF t.done THEN t.result
                          ELSE Raised("Http404", "none", t.tried)

-----------------------------------------------------------------------------
(* Listing order and pagination *)

\* order_by("-first_published_at", "id"): ties in ascending id.
Precedes_AscendingId(a, b) ==
    \/ a.first_published_at > b.first_published_at
    \/ /\ a.first_published_at = b.first_published_at
       /\ a.id < b.id

\* order_by("-first_published_at", "-id"): a comes before b.
Precedes(a, b) ==
    \/ a.first_published_at > b.first_published_at
    \/ /\ a.first_published_at = b.first_published_at
       /\ a.id > b.id

\* The rows of a query in the order of Precedes.
RECURSIVE order_by(_)
order_by(rows) ==
    IF rows = {} THEN <<>>
    ELSE LET head == CHOOSE a \in rows : \A b \in rows \ {a} : Precedes(a, b)
         IN  <<head>> \o order_by(rows \ {head})

\* request.GET.get("page"): absent (None), a text that is no integer, or the
\* text of an integer (`value` is what int() makes of it).
AbsentPage == [kind |-> "absent", value |-> 0]
TextPage == [kind |-> "text", value |-> 0]
IntPage(n) == [kind |-> "int", value |-> n]

\* django Paginator.num_pages (orphans = 0, allow_empty_first_page = True):
\* ceil(max(1, count) / per_page)
Paginator_num_pages(count, per_page) ==
    LET hits == IF count > 1 THEN count ELSE 1
    IN  (hits + per_page - 1) \div per_page

\* django Paginator.page(number): validate_number, then the slice.
Paginator_page(object_list, per_page, number) ==
    LET count == Len(object_list)
        num_pages == Paginator_num_pages(count, per_page)
        failed(e) == [status |-> e, number |-> 0, num_pages |-> num_pages,
                      object_list |-> <<>>]
    IN  IF number.kind # "int" THEN failed("PageNotAnInteger")
        ELSE IF number.value < 1 THEN failed("EmptyPage")
        ELSE IF number.value > num_pages THEN failed("EmptyPage")
        ELSE LET bottom == (number.value - 1) * per_page
                 top == IF bottom + per_page >= count THEN count
                        ELSE bottom + per_page
             IN  [status |-> "ok", number |-> number.value,
                  num_pages |-> num_pages,
                  object_list |-> SubSeq(object_list, bottom + 1, top)]

\* paginate without the EmptyPage handler.
paginate_NoEmptyPageHandler(object_list, per_page, page) ==
    LET asked == Paginator_page(object_list, per_page, page)
    IN  IF asked.status = "PageNotAnInteger"
        THEN Paginator_page(object_list, per_page, IntPage(1))
        ELSE asked

\* paginate that answers a number below 1 with page 1.
paginate_LowNumberGivesFirst(object_list, per_page, page) ==
    LET asked == Paginator_page(object_list, per_page, page)
    IN  IF asked.status = "ok" THEN asked
        ELSE IF asked.status = "PageNotAnInteger" \/ page.value < 1
             THEN Paginator_page(object_list, per_page, IntPage(1))
             ELSE Paginator_page(object_list, per_page,
                      IntPage(Paginator_num_pages(Len(object_list), per_page)))

\* Lines 270-278 and 492-500: the page asked for, page 1 on
\* PageNotAnInteger, the last page on EmptyPage.
paginate(object_list, per_page, page) ==
    LET asked == Paginator_page(object_list, per_page, page)
    IN  IF asked.status = "ok" THEN asked
        ELSE IF asked.status = "PageNotAnInteger"
             THEN Paginator_page(object_list, per_page, IntPage(1))
             ELSE Paginator_page(object_list, per_page,
                      IntPage(Paginator_num_pages(Len(object_list), per_page)))

Ids(rows) == [i \in 1..Len(rows) |-> rows[i].id]

-----------------------------------------------------------------------------
(* CategoryRoutingMixin.serve and the listings *)

NoPageOfList == [status |-> "", number |-> 0, num_pages |-> 0, object_list |-> <<>>]

NoResponse ==
    [kind |-> "", exception |-> "", url |-> <<>>, handler |-> "",
     category_slug |-> "", category |-> NoCategory, articles |-> NoPageOfList,
     page |-> IndexPage, args |-> <<>>, kwargs |-> NoKwargs]

\* An exception that leaves the view.
Raising(handler, exception) ==
    [NoResponse EXCEPT !.kind = "raise", !.handler = handler,
                       !.exception = exception]

\* Lines 261-266: the rows of the category listing.
category_articles(arts, language, category) ==
    {a \in arts : a.live /\ a.locale = language /\ a.category = CategoryRef(category)}

\* Lines 246-290: article_category_index(request, category_slug).
article_category_index(cats, arts, language, category_slug, page, per_page) ==
    LET category == Category_get(cats, category_slug, language)
    IN  IF category.status # "ok"
        THEN Raising("article_category_index", category.status)
        ELSE LET listed == order_by(category_articles(arts, language, category.obj))
                 paged == paginate(Ids(listed), per_page, page)
             IN  IF paged.status # "ok"
                 THEN Raising("article_category_index", paged.status)
                 ELSE [NoResponse EXCEPT !.kind = "render",
                           !.handler = "article_category_index",
                           !.category_slug = category_slug,
                           !.category = CategoryRef(category.obj),
                           !.articles = paged]

\* Lines 478-483: the rows of the index page's own listing.
index_articles(arts, language) ==
    {a \in arts : a.live /\ a.locale = language}

\* Lines 467-505: BaseArticleIndexPage.get_context(request).
get_context(arts, language, page, per_page) ==
    LET paged == paginate(Ids(order_by(index_articles(arts, language))),
                          per_page, page)
    IN  IF paged.status # "ok"
        THEN Raising("get_context", paged.status)
        ELSE [NoResponse EXCEPT !.kind = "render", !.handler = "get_context",
                  !.articles = paged]

\* serve with the category check before the redirect check.
serve_CategoryFirst(cats, arts, language, args, kwargs, page, per_page) ==
    IF "category_slug" \in kwargs.keys
    THEN article_category_index(cats, arts, language, kwargs.category_slug,
                                page, per_page)
    ELSE IF "redirect_url" \in kwargs.keys
    THEN [NoResponse EXCEPT !.kind = "HttpResponsePermanentRedirect",
              !.handler = "serve", !.url = kwargs.redirect_url]
    ELSE [NoResponse EXCEPT !.kind = "super.serve", !.handler = "super.serve",
              !.args = args, !.kwargs = kwargs]

\* Lines 233-244: serve(request, *args, **kwargs) of the index page.
serve(cats, arts, language, args, kwargs, page, per_page) ==
    IF "redirect_url" \in kwargs.keys
    THEN [NoResponse EXCEPT !.kind = "HttpResponsePermanentRedirect",
              !.handler = "serve", !.url = kwargs.redirect_url]
    ELSE IF "category_slug" \in kwargs.keys
    THEN article_category_index(cats, arts, language, kwargs.category_slug,
                                page, per_page)
    ELSE \* super().serve(request, *args, **kwargs): the host page's serving
         [NoResponse EXCEPT !.kind = "super.serve", !.handler = "super.serve",
              !.args = args, !.kwargs = kwargs]

-----------------------------------------------------------------------------
(* AnalyticsSettings.should_include_analytics *)

Sites == {"s1", "s2"}
Pages == {1, 2}                   \* ids of pages

INCLUSION_ALL == "all"
INCLUSION_SPECIFIC == "specific"
INCLUSION_EXCLUDE == "exclude"

\* inclusion_mode is a CharField; its choices are checked by forms, not by
\* save(), so a row may carry another value.
InclusionModes == {INCLUSION_ALL, INCLUSION_SPECIFIC, INCLUSION_EXCLUDE, "custom"}

NoSettings ==
    [site |-> "", enabled |-> FALSE, inclusion_mode |-> "",
     included_pages |-> {}, excluded_pages |-> {},
     head_tracking_code |-> "", body_tracking_code |-> ""]

\* A row with the defaults of the fields (enabled False, mode 'all', blank
\* codes, no pages).
DefaultSettings(site) ==
    [site |-> site, enabled |-> FALSE, inclusion_mode |-> INCLUSION_ALL,
     included_pages |-> {}, excluded_pages |-> {},
     head_tracking_code |-> "", body_tracking_code |-> ""]

\* should_include_analytics that includes under a mode it does not know.
should_include_analytics_UnknownModeIncluded(self, page) ==
    IF ~self.enabled THEN FALSE
    ELSE IF self.inclusion_mode = INCLUSION_ALL THEN TRUE
    ELSE IF self.inclusion_mode = INCLUSION_SPECIFIC
    THEN page \in self.included_pages
    ELSE IF self.inclusion_mode = INCLUSION_EXCLUDE
    THEN page \notin self.excluded_pages
    ELSE TRUE

\* Lines 595-619; `page` is the id of the page.
should_include_analytics(self, page) ==
    IF ~self.enabled THEN FALSE
    ELSE IF self.inclusion_mode = INCLUSION_ALL THEN TRUE
    ELSE IF self.inclusion_mode = INCLUSION_SPECIFIC
    THEN page \in self.included_pages
    ELSE IF self.inclusion_mode = INCLUSION_EXCLUDE
    THEN page \notin self.excluded_pages
    ELSE FALSE

NoIncludeCall == [settings |-> NoSettings, page |-> 0, done |-> FALSE,
                  result |-> FALSE]

-----------------------------------------------------------------------------
(* The template tags analytics_head and analytics_body *)

NoSite == ""          \* Site.find_for_request found no site (None)
NoPage == 0           \* no 'page' in the template context (None)

\* A template context: whether it holds a request, the site that request
\* resolves to, and the page (its id).
TagContexts ==
    {c \in [has_request : BOOLEAN, site : Sites \cup {NoSite},
            page : Pages \cup {NoPage}] : ~c.has_request => c.site = NoSite}

\* The step of the try block at which an exception is raised (a database
\* error, a page object without an id), "" when none is.
TagFailures == {"", "find_for_request", "for_site", "should_include_analytics"}

\* BaseSiteSetting.for_site(site): DoesNotExist for no site, else
\* get_or_create(site=site).
for_site(table, site) ==
    IF site = NoSite
    THEN [status |-> "DoesNotExist", table |-> table, instance |-> NoSettings]
    ELSE IF \E row \in table : row.site = site
    THEN [status |-> "ok", table |-> table,
          instance |-> CHOOSE row \in table : row.site = site]
    ELSE [status |-> "ok", table |-> table \cup {DefaultSettings(site)},
          instance |-> DefaultSettings(site)]

\* The try block up to the test of should_include_analytics (lines 29-33 and
\* 61-65).
analytics_lookup(table, context, failure) ==
    LET found == for_site(table, context.site)
        raised(e, t) == [status |-> "raise", exception |-> e, table |-> t,
                         instance |-> NoSettings, include |-> FALSE]
    IN  IF failure = "find_for_request" THEN raised("Exception", table)
        ELSE IF failure = "for_site" THEN raised("Exception", table)
        ELSE IF found.status # "ok" THEN raised(found.status, table)
        ELSE IF failure = "should_include_analytics"
        THEN raised("Exception", found.table)
        ELSE [status |-> "ok", exception |-> "", table |-> found.table,
              instance |-> found.instance,
              include |-> should_include_analytics(found.instance, context.page)]

\* What a tag does: the text it returns or the exception it raises, and the
\* table after it.
TagReturns(value, table) ==
    [outcome |-> "return", value |-> value, exception |-> "", table |-> table]

TagRaises(exception, table) ==
    [outcome |-> "raise", value |-> "", exception |-> exception, table |-> table]

\* analytics_head without the `except Exception`.
analytics_head_NoExcept(table, context, failure) ==
    IF ~context.has_request \/ context.page = NoPage
    THEN TagReturns("", table)
    ELSE LET r == analytics_lookup(table, context, failure)
         IN  IF r.status = "raise" THEN TagRaises(r.exception, r.table)
             ELSE IF r.include
             THEN TagReturns(r.instance.head_tracking_code, r.table)
             ELSE TagReturns("", r.table)

\* analytics_tags.py lines 10-39
analytics_head(table, context, failure) ==
    IF ~context.has_request \/ context.page = NoPage
    THEN TagReturns("", table)
    ELSE LET r == analytics_lookup(table, context, failure)
         IN  IF r.status = "raise" THEN TagReturns("", r.table)
             ELSE IF r.include
             THEN TagReturns(r.instance.head_tracking_code, r.table)
             ELSE TagReturns("", r.table)

\* analytics_body returning the head code.
analytics_body_HeadCode(table, context, failure) ==
    IF ~context.has_request \/ context.page = NoPage
    THEN TagReturns("", table)
    ELSE LET r == analytics_lookup(table, context, failure)
         IN  IF r.status = "raise" THEN TagReturns("", r.table)
             ELSE IF r.include
             THEN TagReturns(r.instance.head_tracking_code, r.table)
             ELSE TagReturns("", r.table)

\* analytics_tags.py lines 42-71
analytics_body(table, context, failure) ==
    IF ~context.has_request \/ context.page = NoPage
    THEN TagReturns("", table)
    ELSE LET r == analytics_lookup(table, context, failure)
         IN  IF r.status = "raise" THEN TagReturns("", r.table)
             ELSE IF r.include
             THEN TagReturns(r.instance.body_tracking_code, r.table)
             ELSE TagReturns("", r.table)

NoTagOutcome == [outcome |-> "", value |-> "", exception |-> ""]

TagOutcome(r) == [outcome |-> r.outcome, value |-> r.value, exception |-> r.exception]

\* `configured`: whether the site of the request had a row before the
\* template was rendered.
NoTagCall ==
    [context |-> [has_request |-> FALSE, site |-> NoSite, page |-> NoPage],
     stage |-> "", configured |-> FALSE, head_failure |-> "", body_failure |-> "",
     head |-> NoTagOutcome, body |-> NoTagOutcome]

NoSettingsCall == [op |-> "", site |-> NoSite, row |-> NoSettings, outcome |-> ""]

NoReplay == [op |-> "", input |-> <<>>, first |-> <<>>, second |-> <<>>,
             repeated |-> FALSE]

AnalyticsUntouched ==
    /\ analytics = {}
    /\ settings_call = NoSettingsCall
    /\ tag_call = NoTagCall
    /\ include_call = NoIncludeCall
    /\ replay = NoReplay

-----------------------------------------------------------------------------
(* Requests to the index page *)

MaxPage == 2          \* largest page number a request asks for

Paths == {<<>>} \cup {<<s>> : s \in Slugs} \cup {<<c, a>> : c, a \in Slugs}

PageParams == {AbsentPage, TextPage} \cup {IntPage(n) : n \in 0..MaxPage}

NoRequest == [path |-> <<>>, language |-> "", generic |-> [match |-> FALSE,
              kwargs |-> NoKwargs]]

NoUrlCall == [page_path |-> <<>>, category |-> [present |-> FALSE, slug |-> ""],
              done |-> FALSE, result |-> <<>>, repeated |-> FALSE, second |-> <<>>]

NoPagerCall == [count |-> 0, per_page |-> 1, page |-> AbsentPage, done |-> FALSE,
                result |-> NoPageOfList]

RoutingUntouched ==
    /\ categories = {}
    /\ articles = {}
    /\ phase = "idle"
    /\ request = NoRequest
    /\ route_result = NoRouteResult
    /\ response = NoResponse
    /\ url_call = NoUrlCall
    /\ pager_call = NoPagerCall

\* The framework's view calls page.route(request, path_components).
Route ==
    \E path \in Paths, language \in Locales, generic \in GenericOutcomes :
        /\ phase = "idle"
        /\ request' = [path |-> path, language |-> language, generic |-> generic]
        /\ route_result' = route(categories, articles, request')
        /\ response' = NoResponse
        /\ phase' = "routed"
        /\ UNCHANGED <<categories, articles, url_call, pager_call>>
        /\ UNCHANGED <<analytics_state, replay>>

\* The view then calls serve(request, *args, **kwargs) on the page route
\* returned, or lets the exception of route through.
Serve ==
    \E page \in PageParams :
        /\ phase \in {"routed", "stale"}
        /\ response' =
              IF route_result.outcome = "raise"
              THEN Raising("route", route_result.exception)
              ELSE IF route_result.page = IndexPage
              THEN serve(categories, articles, request.language,
                         route_result.args, route_result.kwargs, page,
                         ARTICLES_PER_PAGE)
              ELSE \* the article page serves itself
                   [NoResponse EXCEPT !.kind = "article.serve",
                        !.handler = "article.serve", !.page = route_result.page]
        /\ phase' = "served"
        /\ UNCHANGED <<categories, articles, request, route_result, url_call,
                       pager_call>>
        /\ UNCHANGED <<analytics_state, replay>>

\* The response is sent; the next request may come.
Finish ==
    /\ phase = "served"
    /\ phase' = "idle"
    /\ request' = NoRequest
    /\ route_result' = NoRouteResult
    /\ response' = NoResponse
    /\ UNCHANGED <<categories, articles, url_call, pager_call>>
    /\ UNCHANGED <<analytics_state, replay>>

Init ==
    /\ categories = {}
    /\ articles = {}
    /\ phase = "idle"
    /\ request = NoRequest
    /\ route_result = NoRouteResult
    /\ response = NoResponse
    /\ AnalyticsUntouched
    /\ url_call = NoUrlCall
    /\ pager_call = NoPagerCall

Next ==
    \/ CreateCategory
    \/ UpdateCategory
    \/ DeleteCategory
    \/ CreateArticle
    \/ Route
    \/ Serve
    \/ Finish

Spec == Init /\ [][Next]_vars

-----------------------------------------------------------------------------
(* The listings over a store of several articles *)

MaxListArticles == 2  \* article pages in the store of the listing specification
MaxTime == 2          \* distinct first_published_at instants of those pages

\* Slugs of the pages of that store, one per page: unique among siblings.
ListSlugs == <<"news", "post", "blog", "tech", "misc", "arts">>

ListCategories ==
    { [translation_key |-> "k1", locale |-> "en", slug |-> "news"],
      [translation_key |-> "k2", locale |-> "en", slug |-> "post"],
      [translation_key |-> "k1", locale |-> "fr", slug |-> "news"] }

\* What varies between the pages of that store, all children of the index
\* page.
ListArticleFields ==
    [locale : Locales, live : BOOLEAN, first_published_at : 1..MaxTime,
     category : {NoCategory, [translation_key |-> "k1", locale |-> "en"]}]

ListArticleRow(i, f) ==
    [id |-> i, parent |-> "self", slug |-> ListSlugs[i], locale |-> f.locale,
     live |-> f.live, category |-> f.category,
     first_published_at |-> f.first_published_at]

InitList ==
    /\ categories = ListCategories
    /\ \E fields \in [1..MaxListArticles -> ListArticleFields] :
          articles = {ListArticleRow(i, fields[i]) : i \in 1..MaxListArticles}
    /\ phase = "idle"
    /\ request = NoRequest
    /\ route_result = NoRouteResult
    /\ response = NoResponse
    /\ AnalyticsUntouched
    /\ url_call = NoUrlCall
    /\ pager_call = NoPagerCall

\* serve() of a request routed to the category listing of `slug`.
CategoryIndexCall ==
    \E slug \in Slugs, language \in Locales, page \in PageParams :
        /\ request' = [path |-> <<slug>>, language |-> language,
                       generic |-> NoRequest.generic]
        /\ response' = article_category_index(categories, articles, language,
                                              slug, page, ARTICLES_PER_PAGE)
        /\ UNCHANGED <<categories, articles, phase, route_result, url_call,
                       pager_call>>
        /\ UNCHANGED <<analytics_state, replay>>

\* Rendering the index page itself.
IndexContextCall ==
    \E language \in Locales, page \in PageParams :
        /\ request' = [path |-> <<>>, language |-> language,
                       generic |-> NoRequest.generic]
        /\ response' = get_context(articles, language, page, ARTICLES_PER_PAGE)
        /\ UNCHANGED <<categories, articles, phase, route_result, url_call,
                       pager_call>>
        /\ UNCHANGED <<analytics_state, replay>>

NextList ==
    \/ CategoryIndexCall
    \/ IndexContextCall

SpecList == InitList /\ [][NextList]_vars

-----------------------------------------------------------------------------
(* get_url_parts over hierarchical paths *)

MaxDepth == 3         \* segments of a hierarchical path

\* Segments of a path: a locale prefix, slugs of index pages and articles.
UrlSegments == {"en", "blog", "news", "post"}

RECURSIVE PathsOfDepth(_)
PathsOfDepth(n) ==
    IF n = 0 THEN {<<"/">>}
    ELSE {p \o <<seg, "/">> : p \in PathsOfDepth(n - 1), seg \in UrlSegments}

InitUrl ==
    /\ categories = {}
    /\ articles = {}
    /\ phase = "idle"
    /\ request = NoRequest
    /\ route_result = NoRouteResult
    /\ response = NoResponse
    /\ AnalyticsUntouched
    /\ pager_call = NoPagerCall
    /\ \E n \in 1..MaxDepth :
       \E path \in PathsOfDepth(n) :
       \E cat \in {[present |-> FALSE, slug |-> ""]}
                  \cup {[present |-> TRUE, slug |-> seg] : seg \in UrlSegments} :
          url_call = [page_path |-> path, category |-> cat, done |-> FALSE,
                      result |-> <<>>, repeated |-> FALSE, second |-> <<>>]

GetUrlPartsCall ==
    /\ ~url_call.done
    /\ url_call' = [url_call EXCEPT !.done = TRUE,
                       !.result = get_url_parts(url_call.page_path,
                                                url_call.category)]
    /\ UNCHANGED <<categories, articles, phase, request, route_result, response,
                   pager_call>>
    /\ UNCHANGED <<analytics_state, replay>>

\* The same page's get_url_parts applied to the path it built.
GetUrlPartsAgain ==
    /\ url_call.done
    /\ ~url_call.repeated
    /\ url_call' = [url_call EXCEPT !.repeated = TRUE,
                       !.second = get_url_parts(url_call.result,
                                                url_call.category)]
    /\ UNCHANGED <<categories, articles, phase, request, route_result, response,
                   pager_call>>
    /\ UNCHANGED <<analytics_state, replay>>

NextUrl ==
    \/ GetUrlPartsCall
    \/ GetUrlPartsAgain

SpecUrl == InitUrl /\ [][NextUrl]_vars

-----------------------------------------------------------------------------
(* Pagination over listings of every size *)

MaxItems == 4         \* rows of a listing
MaxPerPage == 3       \* the ARTICLES_PER_PAGE setting of a host
MaxAskedPage == 6     \* largest page number asked for

AskedPages == {AbsentPage, TextPage} \cup {IntPage(n) : n \in (0 - 1)..MaxAskedPage}

InitPage ==
    /\ categories = {}
    /\ articles = {}
    /\ phase = "idle"
    /\ request = NoRequest
    /\ route_result = NoRouteResult
    /\ response = NoResponse
    /\ AnalyticsUntouched
    /\ url_call = NoUrlCall
    /\ \E count \in 0..MaxItems, per_page \in 1..MaxPerPage, page \in AskedPages :
          pager_call = [count |-> count, per_page |-> per_page, page |-> page,
                        done |-> FALSE, result |-> NoPageOfList]

PaginateCall ==
    /\ ~pager_call.done
    /\ pager_call' = [pager_call EXCEPT !.done = TRUE,
                         !.result = paginate([i \in 1..pager_call.count |-> i],
                                             pager_call.per_page, pager_call.page)]
    /\ UNCHANGED <<categories, articles, phase, request, route_result, response,
                   url_call>>
    /\ UNCHANGED <<analytics_state, replay>>

NextPage == PaginateCall

SpecPage == InitPage /\ [][NextPage]_vars

-----------------------------------------------------------------------------
(* The inclusion rule and the template tags over every configuration *)

\* The tracking codes of a configured site.
HeadCode == "<script>"
BodyCode == "<noscript>"

\* The rows an admin can have saved for a site.
SettingsRows(site) ==
    {[site |-> site, enabled |-> e, inclusion_mode |-> m,
      included_pages |-> inc, excluded_pages |-> exc,
      head_tracking_code |-> HeadCode, body_tracking_code |-> BodyCode] :
        e \in BOOLEAN, m \in InclusionModes,
        inc \in SUBSET Pages, exc \in SUBSET Pages}

\* Site "s1" is configured or not; site "s2" has no row yet.
InitAnalytics ==
    /\ RoutingUntouched
    /\ analytics \in {{}} \cup {{row} : row \in SettingsRows("s1")}
    /\ settings_call = NoSettingsCall
    /\ tag_call = NoTagCall
    /\ include_call = NoIncludeCall
    /\ replay = NoReplay

\* should_include_analytics that also remembers the page in included_pages.
ShouldIncludeCall_RemembersPage ==
    \E row \in analytics, page \in Pages :
        /\ ~include_call.done
        /\ include_call' = [settings |-> row, page |-> page, done |-> TRUE,
                            result |-> should_include_analytics(row, page)]
        /\ analytics' = (analytics \ {row}) \cup
               {[row EXCEPT !.included_pages = @ \cup {page}]}
        /\ UNCHANGED <<routing_state, settings_call, tag_call, replay>>

\* settings.should_include_analytics(page) on a row of the table.
ShouldIncludeCall ==
    \E row \in analytics, page \in Pages :
        /\ ~include_call.done
        /\ include_call' = [settings |-> row, page |-> page, done |-> TRUE,
                            result |-> should_include_analytics(row, page)]
        /\ UNCHANGED <<routing_state, analytics, settings_call, tag_call, replay>>

\* A template is rendered: {% analytics_head %} in its head ...
AnalyticsHead ==
    \E context \in TagContexts, failure \in TagFailures :
        LET r == analytics_head(analytics, context, failure)
        IN  /\ tag_call.stage = ""
            /\ analytics' = r.table
            /\ tag_call' = [context |-> context, stage |-> "head",
                            configured |-> \E row \in analytics :
                                              row.site = context.site,
                            head_failure |-> failure, body_failure |-> "",
                            head |-> TagOutcome(r), body |-> NoTagOutcome]
            /\ UNCHANGED <<routing_state, settings_call, include_call, replay>>

\* ... and {% analytics_body %} at the end of its body, in the same context.
AnalyticsBody ==
    \E failure \in TagFailures :
        LET r == analytics_body(analytics, tag_call.context, failure)
        IN  /\ tag_call.stage = "head"
            /\ tag_call.head.outcome = "return"
            /\ analytics' = r.table
            /\ tag_call' = [tag_call EXCEPT !.stage = "body",
                                !.body_failure = failure,
                                !.body = TagOutcome(r)]
            /\ UNCHANGED <<routing_state, settings_call, include_call, replay>>

NextAnalytics ==
    \/ ShouldIncludeCall
    \/ AnalyticsHead
    \/ AnalyticsBody

SpecAnalytics == InitAnalytics /\ [][NextAnalytics]_vars

-----------------------------------------------------------------------------
(* Creating AnalyticsSettings rows *)

\* objects.create that inserts the row whatever the table holds.
objects_create_NoUniqueSite(table, row) ==
    [outcome |-> "created", table |-> table \cup {row}]

\* AnalyticsSettings.objects.create(site=..., ...): BaseSiteSetting.site is a
\* one-to-one key, so a second row of a site is an IntegrityError.
objects_create(table, row) ==
    IF \E old \in table : old.site = row.site
    THEN [outcome |-> "IntegrityError", table |-> table]
    ELSE [outcome |-> "created", table |-> table \cup {row}]

\* The rows objects.create is called with: the page sets of a new row are
\* empty (many-to-many fields are filled after the insert).
NewSettingsRows(site) ==
    {row \in SettingsRows(site) :
        row.included_pages = {} /\ row.excluded_pages = {}}

CreateSettings ==
    \E site \in Sites :
    \E row \in NewSettingsRows(site) :
        LET r == objects_create(analytics, row)
        IN  /\ analytics' = r.table
            /\ settings_call' = [op |-> "create", site |-> site, row |-> row,
                                 outcome |-> r.outcome]
            /\ UNCHANGED <<routing_state, tag_call, include_call, replay>>

\* AnalyticsSettings.for_site(site), as the tags and the admin call it.
ForSiteCall ==
    \E site \in Sites :
        LET r == for_site(analytics, site)
        IN  /\ analytics' = r.table
            /\ settings_call' = [op |-> "for_site", site |-> site,
                                 row |-> r.instance, outcome |-> r.status]
            /\ UNCHANGED <<routing_state, tag_call, include_call, replay>>

InitSettings ==
    /\ RoutingUntouched
    /\ AnalyticsUntouched

NextSettings ==
    \/ CreateSettings
    \/ ForSiteCall

SpecSettings == InitSettings /\ [][NextSettings]_vars

-----------------------------------------------------------------------------
(* Translating categories into several locales *)

CategoryLocales == {"en", "fr", "de"}

\* Every (translation_key, locale) may get its row.
CreateTranslation ==
    SaveNewCategory(CategoryLocales,
                    Cardinality(TranslationKeys) * Cardinality(CategoryLocales) + 1)

InitCategory ==
    /\ RoutingUntouched
    /\ AnalyticsUntouched

NextCategory ==
    \/ CreateTranslation
    \/ UpdateCategory
    \/ DeleteCategory

SpecCategory == InitCategory /\ [][NextCategory]_vars

\* The same table when no row is edited after its first save.
NextTranslate ==
    \/ CreateTranslation
    \/ DeleteCategory

SpecTranslate == InitCategory /\ [][NextTranslate]_vars

-----------------------------------------------------------------------------
(* Evaluating route, the category listing and the inclusion rule twice *)

\* The store of this specification: the categories of the listings, one
\* article below the index page, the row of one site.
FrameArticles ==
    {ListArticleRow(1, f) : f \in {g \in ListArticleFields :
                                      g.first_published_at = 1}}

FrameSettings ==
    {row \in SettingsRows("s1") :
        row.enabled /\ row.included_pages = {1} /\ row.excluded_pages = {2}}

InitFrame ==
    /\ categories = ListCategories
    /\ \E a \in FrameArticles : articles = {a}
    /\ phase = "idle"
    /\ request = NoRequest
    /\ route_result = NoRouteResult
    /\ response = NoResponse
    /\ url_call = NoUrlCall
    /\ pager_call = NoPagerCall
    /\ \E row \in FrameSettings : analytics = {row}
    /\ settings_call = NoSettingsCall
    /\ tag_call = NoTagCall
    /\ include_call = NoIncludeCall
    /\ replay = NoReplay

\* route() once more for the request just routed.
RouteAgain ==
    /\ phase = "routed"
    /\ replay.op = ""
    /\ replay' = [op |-> "route", input |-> request, first |-> route_result,
                  second |-> route(categories, articles, request),
                  repeated |-> TRUE]
    /\ UNCHANGED <<routing_state, analytics_state>>

\* article_category_index for a category slug, a language and a page
\* parameter ...
ListingCall ==
    \E slug \in Slugs, language \in Locales, page \in PageParams :
        /\ replay.op = ""
        /\ replay' = [op |-> "listing",
                      input |-> [category_slug |-> slug, language |-> language,
                                 page |-> page],
                      first |-> article_category_index(categories, articles,
                                    language, slug, page, ARTICLES_PER_PAGE),
                      second |-> <<>>, repeated |-> FALSE]
        /\ UNCHANGED <<routing_state, analytics_state>>

\* ... and once more for the same three.
ListingAgain ==
    /\ replay.op = "listing"
    /\ ~replay.repeated
    /\ replay' = [replay EXCEPT !.repeated = TRUE,
                     !.second = article_category_index(categories, articles,
                                    replay.input.language,
                                    replay.input.category_slug,
                                    replay.input.page, ARTICLES_PER_PAGE)]
    /\ UNCHANGED <<routing_state, analytics_state>>

\* should_include_analytics once more for the row and page just evaluated.
ShouldIncludeAgain ==
    /\ include_call.done
    /\ replay.op = ""
    /\ replay' = [op |-> "include",
                  input |-> [site |-> include_call.settings.site,
                             page |-> include_call.page],
                  first |-> include_call.result,
                  second |-> should_include_analytics(
                                 CHOOSE row \in analytics :
                                     row.site = include_call.settings.site,
                                 include_call.page),
                  repeated |-> TRUE]
    /\ UNCHANGED <<routing_state, analytics_state>>

NextFrame ==
    \/ Route
    \/ RouteAgain
    \/ ListingCall
    \/ ListingAgain
    \/ ShouldIncludeCall
    \/ ShouldIncludeAgain

SpecFrame == InitFrame /\ [][NextFrame]_vars

-----------------------------------------------------------------------------
(* Properties of route() *)

\* In phase "routed" the store is the one route() read: a write moves the
\* request to "stale".
Routed == phase = "routed"

Tried(rule) == \E i \in 1..Len(route_result.tried) : route_result.tried[i] = rule

\* Live children of the index page with slug s in locale l that carry a
\* category.
CategorizedChildren(s, l) ==
    {a \in articles : /\ a.live /\ a.parent = "self" /\ a.slug = s
                      /\ a.locale = l /\ a.category # NoCategory}

CategoriesAt(s, l) == {c \in categories : c.slug = s /\ c.locale = l}

\* Live children of the index page with slug s in locale l whose category
\* is a category of slug c in locale l.
ChildrenInCategory(c, s, l) ==
    {a \in articles : /\ a.live /\ a.parent = "self" /\ a.slug = s /\ a.locale = l
                      /\ \E cat \in CategoriesAt(c, l) : a.category = CategoryRef(cat)}

\* C1: for a path of one segment [s] and a language L, a live child article
\* of the index page with slug s, locale L and a category makes route return
\* the redirect to that article's URL, whether or not a category of slug s
\* exists in L.
C1_ArticleRedirectWins ==
    (Routed /\ Len(request.path) = 1) =>
        \A a \in CategorizedChildren(request.path[1], request.language) :
            /\ route_result.outcome = "return"
            /\ route_result.page = IndexPage
            /\ route_result.kwargs.keys = {"redirect_url"}
            /\ route_result.kwargs.redirect_url = Article_get_url(categories, a)

C1_Witness ==
    /\ Routed /\ Len(request.path) = 1
    /\ CategorizedChildren(request.path[1], request.language) # {}
    /\ CategoriesAt(request.path[1], request.language) # {}
    /\ route_result.kwargs.keys = {"redirect_url"}

\* C2: for a path of one segment [s] and a language L, when no live child
\* article with slug s in L carries a category and a category of slug s
\* exists in L, route returns the index page with category_slug = s, and no
\* generic sub-route is consulted.
C2_CategoryMatch ==
    (/\ Routed /\ Len(request.path) = 1
     /\ CategorizedChildren(request.path[1], request.language) = {}
     /\ CategoriesAt(request.path[1], request.language) # {}) =>
        /\ route_result.outcome = "return"
        /\ route_result.page = IndexPage
        /\ route_result.kwargs.keys = {"category_slug"}
        /\ route_result.kwargs.category_slug = request.path[1]
        /\ ~Tried("generic")

\* C3: for a path of two segments [c, a] and a language L with no generic
\* sub-route matching, route delegates to the article exactly when a
\* category of slug c exists in L and a live child article has slug a, that
\* category and locale L; otherwise the result is the not-found Http404.
C3_CategoryArticle ==
    (Routed /\ Len(request.path) = 2 /\ ~request.generic.match) =>
        LET matching == ChildrenInCategory(request.path[1], request.path[2],
                                           request.language)
        IN  /\ \A a \in matching :
                  /\ route_result.outcome = "return"
                  /\ route_result.page = ArticlePage(a)
                  /\ route_result.args = <<>>
            /\ matching = {} =>
                  /\ route_result.outcome = "raise"
                  /\ route_result.exception = "Http404"

\* C4: the rules are tried in the order single-segment rules, generic
\* sub-routes, category + article: a generic sub-route is tried only after
\* both single-segment rules failed, its match on a path of two segments is
\* returned even where category + article would match, and its Http404 falls
\* through to the category + article rule.
RuleRank(rule) ==
    CASE rule = "article_redirect" -> 1
      [] rule = "category_index" -> 2
      [] rule = "generic" -> 3
      [] rule = "category_article" -> 4
      [] OTHER -> 0

C4_DispatchOrder ==
    Routed =>
        /\ \A i, j \in 1..Len(route_result.tried) :
              i < j => RuleRank(route_result.tried[i]) < RuleRank(route_result.tried[j])
        /\ (Tried("generic") /\ Len(request.path) = 1) =>
              /\ Tried("article_redirect") /\ Tried("category_index")
              /\ CategorizedChildren(request.path[1], request.language) = {}
              /\ CategoriesAt(request.path[1], request.language) = {}
        /\ (Len(request.path) = 2 /\ request.generic.match) =>
              /\ route_result.outcome = "return"
              /\ route_result.page = IndexPage
              /\ route_result.kwargs = request.generic.kwargs
              /\ ~Tried("category_article")
        /\ (Len(request.path) = 2 /\ ~request.generic.match) =>
              /\ Tried("category_article")
              /\ Cardinality(CategoriesAt(request.path[1], request.language)) = 1 =>
                    \A a \in ChildrenInCategory(request.path[1], request.path[2],
                                                request.language) :
                        route_result.page = ArticlePage(a)

C4_Witness ==
    /\ Routed /\ Len(request.path) = 2 /\ request.generic.match
    /\ Cardinality(CategoriesAt(request.path[1], request.language)) = 1
    /\ ChildrenInCategory(request.path[1], request.path[2], request.language) # {}
    /\ route_result.rule = "generic"

-----------------------------------------------------------------------------
(* Properties of serve() and of the category listing *)

\* serve() of the index page has answered a result route returned.
ServedByIndex ==
    /\ phase = "served"
    /\ route_result.outcome = "return"
    /\ route_result.page = IndexPage

\* C5: serve answers by the kind of the route result: a redirect target gives
\* a permanent redirect to exactly that URL, checked first; otherwise a
\* category slug gives the category listing of that slug; any other result
\* goes unchanged to the host page's default serving.
C5_ServeByKind ==
    ServedByIndex =>
        LET kw == route_result.kwargs
        IN  IF "redirect_url" \in kw.keys
            THEN /\ response.kind = "HttpResponsePermanentRedirect"
                 /\ response.url = kw.redirect_url
            ELSE IF "category_slug" \in kw.keys
            THEN /\ response.handler = "article_category_index"
                 /\ Cardinality(CategoriesAt(kw.category_slug, request.language)) = 1 =>
                       /\ response.kind = "render"
                       /\ response.category_slug = kw.category_slug
                       /\ \E c \in CategoriesAt(kw.category_slug, request.language) :
                             response.category = CategoryRef(c)
            ELSE /\ response.kind = "super.serve"
                 /\ response.args = route_result.args
                 /\ response.kwargs = kw

C5_Witness ==
    /\ ServedByIndex
    /\ route_result.kwargs.keys = {"redirect_url", "category_slug"}
    /\ response.kind = "HttpResponsePermanentRedirect"
    /\ response.url = route_result.kwargs.redirect_url

\* C6: when route returned the category match of slug s and no category of
\* slug s exists in the request's locale at serving time, serving ends in
\* the not-found Http404.
C6_VanishedCategoryNotFound ==
    (/\ ServedByIndex
     /\ route_result.rule = "category_index"
     /\ CategoriesAt(route_result.kwargs.category_slug, request.language) = {}) =>
        /\ response.kind = "raise"
        /\ response.exception = "Http404"

\* C7: the category listing served for slug s holds exactly the articles
\* that are live, children of the index page, in the request's locale and of
\* the category of slug s in that locale.
C7_ListingOfSelfOnly ==
    (/\ ServedByIndex
     /\ response.kind = "render"
     /\ response.handler = "article_category_index") =>
        {response.articles.object_list[i] :
            i \in 1..Len(response.articles.object_list)}
        = {a.id : a \in {b \in articles : /\ b.live /\ b.parent = "self"
                                          /\ b.locale = request.language
                                          /\ b.category = response.category}}

-----------------------------------------------------------------------------
(* Properties of the listing order *)

ArticleById(id) == CHOOSE a \in articles : a.id = id

\* The rows the listing of the response was built from.
ListedRows ==
    IF response.handler = "article_category_index"
    THEN {a \in articles : /\ a.live /\ a.locale = request.language
                           /\ a.category = response.category}
    ELSE {a \in articles : a.live /\ a.locale = request.language}

\* C8: the articles of the category listing and of the index page's listing
\* come by publish time descending, equal publish times by id descending;
\* every row of the query is listed once.
C8_ListingOrder ==
    response.kind = "render" =>
        LET l == response.articles.object_list
        IN  /\ \A i, j \in 1..Len(l) :
                  i < j =>
                     \/ ArticleById(l[i]).first_published_at
                            > ArticleById(l[j]).first_published_at
                     \/ /\ ArticleById(l[i]).first_published_at
                              = ArticleById(l[j]).first_published_at
                        /\ l[i] > l[j]
            /\ {l[i] : i \in 1..Len(l)} = {a.id : a \in ListedRows}
            /\ Len(l) = Cardinality(ListedRows)

C8_Witness ==
    /\ response.kind = "render"
    /\ Len(response.articles.object_list) >= 2
    /\ ArticleById(response.articles.object_list[1]).first_published_at
          = ArticleById(response.articles.object_list[2]).first_published_at
    /\ response.articles.object_list[1] > response.articles.object_list[2]

-----------------------------------------------------------------------------
(* Properties of the pagination *)

\* The number of the last page of a listing of `count` rows: at least 1.
LastPage(count, per_page) ==
    CHOOSE n \in 1..(count + 1) :
        /\ (n - 1) * per_page < (IF count = 0 THEN 1 ELSE count)
        /\ (IF count = 0 THEN 1 ELSE count) <= n * per_page

\* C9: pagination surfaces no error for any page parameter: an absent or
\* non-numeric parameter gives page 1, a number beyond the last page gives
\* the last page, for listings of every size, the empty one included.
C9_PaginationNeverRaises ==
    pager_call.done =>
        /\ pager_call.result.status = "ok"
        /\ pager_call.page.kind # "int" => pager_call.result.number = 1
        /\ (/\ pager_call.page.kind = "int"
            /\ pager_call.page.value > LastPage(pager_call.count, pager_call.per_page))
           => pager_call.result.number
                 = LastPage(pager_call.count, pager_call.per_page)

C9_Witness ==
    /\ pager_call.done
    /\ pager_call.count = 0
    /\ pager_call.page.kind = "int"
    /\ pager_call.page.value > 1
    /\ pager_call.result.status = "ok"
    /\ pager_call.result.number = 1

-----------------------------------------------------------------------------
(* Properties of get_url_parts *)

IsSegment(token) == token # "/"

\* The segments of a path, and the path of a sequence of segments.
SegmentsOf(path) == SelectSeq(path, IsSegment)

RECURSIVE PathOf(_)
PathOf(segments) ==
    IF segments = <<>> THEN <<"/">>
    ELSE PathOf(SubSeq(segments, 1, Len(segments) - 1))
         \o <<segments[Len(segments)], "/">>

\* C10: for an article with a category and a hierarchical path of at least
\* one segment before the article's slug, get_url_parts returns the path with
\* the category's slug as the segment right before the article's slug, the
\* other segments unchanged; the insertion is skipped only when the category
\* slug already is the segment at that position.
C10_CategoryBeforeSlug ==
    (/\ url_call.done
     /\ url_call.category.present
     /\ Len(SegmentsOf(url_call.page_path)) >= 2) =>
        LET segments == SegmentsOf(url_call.page_path)
            n == Len(segments)
        IN  url_call.result =
               IF segments[n - 1] = url_call.category.slug
               THEN url_call.page_path
               ELSE PathOf(SubSeq(segments, 1, n - 1)
                           \o <<url_call.category.slug, segments[n]>>)

\* C11: building the category-aware path is idempotent: a path that has the
\* category's slug right before the article's slug is returned unchanged,
\* get_url_parts applied to its own result returns that result, and a page
\* without a category keeps its hierarchical path.
C11_InsertionIdempotent ==
    url_call.repeated =>
        LET segments == SegmentsOf(url_call.page_path)
            n == Len(segments)
        IN  /\ url_call.second = url_call.result
            /\ (/\ url_call.category.present
                /\ n >= 2
                /\ segments[n - 1] = url_call.category.slug)
               => url_call.result = url_call.page_path
            /\ ~url_call.category.present
               => url_call.result = url_call.page_path

C11_Witness ==
    /\ url_call.repeated
    /\ url_call.category.present
    /\ url_call.result # url_call.page_path
    /\ Len(SegmentsOf(url_call.result)) = Len(SegmentsOf(url_call.page_path)) + 1
    /\ url_call.second = url_call.result

-----------------------------------------------------------------------------
(* Properties of the inclusion rule *)

\* C12: should_include_analytics(page) is false when the row is not enabled;
\* otherwise true under mode 'all', membership of included_pages under
\* 'specific' (excluded_pages ignored), non-membership of excluded_pages
\* under 'exclude' (included_pages ignored), and false under any other mode.
C12_InclusionTruthTable ==
    include_call.done =>
        LET cfg == include_call.settings
            page == include_call.page
        IN  include_call.result =
               (/\ cfg.enabled
                /\ \/ cfg.inclusion_mode = "all"
                   \/ cfg.inclusion_mode = "specific" /\ page \in cfg.included_pages
                   \/ cfg.inclusion_mode = "exclude" /\ page \notin cfg.excluded_pages)

C12_Witness ==
    /\ include_call.done
    /\ include_call.settings.enabled
    /\ include_call.settings.inclusion_mode = "custom"
    /\ include_call.page \in include_call.settings.included_pages
    /\ include_call.page \notin include_call.settings.excluded_pages
    /\ include_call.result = FALSE

-----------------------------------------------------------------------------
(* Properties of the template tags *)

\* The row of the site the rendered template's request resolves to.
TagSettings == CHOOSE row \in analytics : row.site = tag_call.context.site

\* The context holds a request and a page, the site had its row, and no
\* step of either tag failed.
TagsEvaluated ==
    /\ tag_call.stage = "body"
    /\ tag_call.context.has_request
    /\ tag_call.context.page # NoPage
    /\ tag_call.configured
    /\ tag_call.head_failure = ""
    /\ tag_call.body_failure = ""

\* C13: with request, page and the site's configuration present,
\* analytics_head returns the configured head code and analytics_body the
\* configured body code when should_include_analytics(page) is true, and
\* both return the empty text when it is false; so both inject or neither
\* does, and neither returns the other's code.
C13_TagsReturnTheirCode ==
    TagsEvaluated =>
        LET include == should_include_analytics(TagSettings, tag_call.context.page)
        IN  /\ tag_call.head.outcome = "return"
            /\ tag_call.body.outcome = "return"
            /\ tag_call.head.value =
                  IF include THEN TagSettings.head_tracking_code ELSE ""
            /\ tag_call.body.value =
                  IF include THEN TagSettings.body_tracking_code ELSE ""
            /\ (tag_call.head.value = "") <=> (tag_call.body.value = "")
            /\ TagSettings.head_tracking_code # TagSettings.body_tracking_code
               => /\ tag_call.head.value # TagSettings.body_tracking_code
                  /\ tag_call.body.value # TagSettings.head_tracking_code

C13_Witness ==
    /\ TagsEvaluated
    /\ TagSettings.inclusion_mode = "exclude"
    /\ tag_call.context.page \notin TagSettings.excluded_pages
    /\ tag_call.head.value = HeadCode
    /\ tag_call.body.value = BodyCode

\* C14: the tags never raise, and return the empty text when the context
\* has no request or no page, when the site has no configuration, and when
\* finding the site, loading the configuration or evaluating inclusion
\* fails.
C14_TagsFailSilently ==
    /\ tag_call.head.outcome # "raise"
    /\ tag_call.body.outcome # "raise"
    /\ (/\ tag_call.stage \in {"head", "body"}
        /\ \/ ~tag_call.context.has_request
           \/ tag_call.context.page = NoPage
           \/ ~tag_call.configured
           \/ tag_call.head_failure # "")
       => tag_call.head = [outcome |-> "return", value |-> "", exception |-> ""]
    /\ (/\ tag_call.stage = "body"
        /\ \/ ~tag_call.context.has_request
           \/ tag_call.context.page = NoPage
           \/ ~tag_call.configured
           \/ tag_call.body_failure # "")
       => tag_call.body = [outcome |-> "return", value |-> "", exception |-> ""]

C14_Witness ==
    /\ tag_call.stage = "body"
    /\ tag_call.context.has_request
    /\ tag_call.context.page # NoPage
    /\ tag_call.configured
    /\ TagSettings.enabled
    /\ TagSettings.inclusion_mode = "all"
    /\ tag_call.head_failure = "should_include_analytics"
    /\ tag_call.body_failure = "for_site"
    /\ tag_call.head.value = ""
    /\ tag_call.body.value = ""

-----------------------------------------------------------------------------
(* Properties of the AnalyticsSettings table *)

SettingsOf(site) == {row \in analytics : row.site = site}

\* C15: every site has at most one AnalyticsSettings row after any sequence
\* of creations; creating a second row for a site that has one fails with an
\* error and leaves the table as it was.
C15_OneSettingsPerSite ==
    /\ [](\A site \in Sites : Cardinality(SettingsOf(site)) <= 1)
    /\ [][(/\ settings_call'.op = "create"
           /\ SettingsOf(settings_call'.site) # {})
          => /\ settings_call'.outcome = "IntegrityError"
             /\ analytics' = analytics]_<<analytics, settings_call>>

C15_Witness ==
    /\ settings_call.op = "create"
    /\ settings_call.outcome = "IntegrityError"
    /\ settings_call.row \notin analytics
    /\ SettingsOf(settings_call.site) # {}
    /\ \A site \in Sites : SettingsOf(site) # {}

-----------------------------------------------------------------------------
(* Properties of the Category table *)

\* C16: after any sequence of Category saves no two rows share their
\* (translation_key, locale): a save never adds a row for a pair the table
\* already holds.
C16_UniqueTranslationPerLocale ==
    /\ [](\A c, d \in categories :
             (c.translation_key = d.translation_key /\ c.locale = d.locale)
             => c = d)
    /\ [][\A c \in categories' \ categories :
             \/ \E old \in categories \ categories' : CategoryRef(old) = CategoryRef(c)
             \/ ~\E old \in categories : CategoryRef(old) = CategoryRef(c)]_categories

C16_Witness ==
    \E c, d \in categories :
        /\ c.translation_key = d.translation_key
        /\ c.locale # d.locale

\* C17: after any sequence of Category saves no two categories of one locale
\* have the same slug, so a lookup by (slug, locale) finds at most one row.
C17_SlugUniquePerLocale ==
    \A c, d \in categories :
        (c.locale = d.locale /\ c.slug = d.slug) => c = d

\* The rows a step inserts, and the rows of the same translation group in
\* other locales that were there before it.
InsertedRows ==
    {c \in categories' : ~\E old \in categories : CategoryRef(old) = CategoryRef(c)}

SourcesOf(c) ==
    {src \in categories : /\ src.translation_key = c.translation_key
                          /\ src.locale # c.locale}

\* C18 as stated: the first save of a variant in locale L2 of a group stores
\* the slug of the group's variant in L1, for every locale L1 the group has a
\* variant in.
C18_SlugOfEveryVariant ==
    [][\A c \in InsertedRows : \A src \in SourcesOf(c) : c.slug = src.slug]_categories

\* C18: the first save of a new variant of a translation group that has
\* variants in other locales stores the slug of one of those variants, not a
\* slug derived from the new variant's name; it is the slug of the variant in
\* L1 when the group's other variants all carry that slug.
C18_SlugOfSomeVariant ==
    [][\A c \in InsertedRows :
          SourcesOf(c) # {} => \E src \in SourcesOf(c) : c.slug = src.slug]_categories

C18_Witness ==
    \E c, d, e \in categories :
        /\ c.translation_key = d.translation_key
        /\ d.translation_key = e.translation_key
        /\ c.locale = "en" /\ d.locale = "fr" /\ e.locale = "de"
        /\ c.slug # d.slug
        /\ e.slug = d.slug

-----------------------------------------------------------------------------
(* Frame of the decision procedures *)

-----------------------------------------------------------------------------
(* Following a redirect *)

\* The path components the index page is routed with when the browser
\* follows the redirect: the segments of the target below the index page's
\* own segment.
ComponentsBelowIndex(url) == Tail(SegmentsOf(url))

\* route() of the followed redirect, no generic sub-route of the host
\* matching it.
FollowedRedirect ==
    route(categories, articles,
          [path |-> ComponentsBelowIndex(route_result.kwargs.redirect_url),
           language |-> request.language,
           generic |-> [match |-> FALSE, kwargs |-> NoKwargs]])

\* C20: when route answers a path of one segment [s] with the redirect to
\* article A's URL, routing the segments of that URL below the index page,
\* against the same store, delegates to A and is no further redirect, and
\* the target differs from the path requested, whatever the category's slug.
C20_RedirectEndsAtArticle ==
    (Routed /\ route_result.rule = "article_redirect") =>
        \A a \in CategorizedChildren(request.path[1], request.language) :
            /\ ComponentsBelowIndex(route_result.kwargs.redirect_url) # request.path
            /\ FollowedRedirect.outcome = "return"
            /\ FollowedRedirect.rule = "category_article"
            /\ FollowedRedirect.page = ArticlePage(a)

-----------------------------------------------------------------------------
(* What the category rules of route() answer to *)

\* Articles with the slug of a one-segment request that miss one of: live,
\* child of the index page, the request's locale, a category.
NearMisses ==
    {a \in articles : /\ Len(request.path) = 1
                      /\ a.slug = request.path[1]
                      /\ \/ ~a.live
                         \/ a.parent # "self"
                         \/ a.locale # request.language
                         \/ a.category = NoCategory}

\* C21: the redirect rule answers only a path of one segment whose slug is
\* that of a live child article of the index page in the request's locale
\* with a category, and the category match only a path of one segment; a
\* path of zero or of two segments gets neither from the category rules.
C21_CategoryRulesOnlySingleSegment ==
    Routed =>
        /\ route_result.rule = "article_redirect" =>
              /\ Len(request.path) = 1
              /\ CategorizedChildren(request.path[1], request.language) # {}
        /\ route_result.rule = "category_index" =>
              /\ Len(request.path) = 1
              /\ CategoriesAt(request.path[1], request.language) # {}
        /\ Len(request.path) # 1 =>
              /\ ~Tried("article_redirect")
              /\ ~Tried("category_index")
              /\ route_result.rule \in {"generic", "category_article", "none"}
              /\ route_result.rule # "generic" =>
                    /\ "redirect_url" \notin route_result.kwargs.keys
                    /\ "category_slug" \notin route_result.kwargs.keys

C21_Witness ==
    /\ Routed
    /\ NearMisses # {}
    /\ \E a \in NearMisses : a.category # NoCategory /\ a.parent = "self" /\ ~a.live
    /\ route_result.rule # "article_redirect"
    /\ route_result.outcome = "raise"
    /\ route_result.exception = "Http404"

-----------------------------------------------------------------------------
(* Slugs of a translation group *)

VariantsOf(k) == {c \in categories : c.translation_key = k}

\* C22: when rows are only created (with or without a slug of their own) and
\* none is edited afterwards, all variants of a translation group carry one
\* slug, for groups of three locales too.
C22_OneSlugPerGroup ==
    \A c, d \in categories :
        c.translation_key = d.translation_key => c.slug = d.slug

C22_Witness ==
    /\ \A l \in CategoryLocales : \E c \in VariantsOf("k1") : c.locale = l
    /\ \A c \in VariantsOf("k1") : c.slug = "news"
    /\ Cardinality(VariantsOf("k2")) = 2
    /\ \A c \in VariantsOf("k2") : c.slug = "post"

-----------------------------------------------------------------------------
(* The number of the page returned *)

\* C23: the page returned by the pagination has a number from 1 to the
\* number of pages, which is at least 1 for an empty listing too: a number
\* in that range returns its page, a number below 1 returns the last page,
\* and a number above the range returns the last page.
C23_PageNumberInRange ==
    pager_call.done =>
        LET last == LastPage(pager_call.count, pager_call.per_page)
            asked == pager_call.page
            got == pager_call.result
        IN  /\ got.status = "ok"
            /\ got.num_pages = last
            /\ last >= 1
            /\ 1 <= got.number /\ got.number <= last
            /\ (asked.kind = "int" /\ 1 <= asked.value /\ asked.value <= last)
               => got.number = asked.value
            /\ (asked.kind = "int" /\ asked.value < 1) => got.number = last
            /\ (asked.kind = "int" /\ asked.value > last) => got.number = last

C23_Witness ==
    /\ pager_call.done
    /\ pager_call.page.kind = "int"
    /\ pager_call.page.value < 1
    /\ pager_call.result.status = "ok"
    /\ pager_call.result.num_pages >= 2
    /\ pager_call.result.number = pager_call.result.num_pages

====
